---- MODULE Spec2Model ----
(***************************************************************************)
(* A model of prtool.py: a sequential script that rebases the work branch, *)
(* selects commits, composes a pull-request title and body, and publishes  *)
(* a PR branch.  Strings are sequences of one-character strings, so that   *)
(* split, join, strip, find and the character filters are computed as      *)
(* Python computes them.                                                   *)
(***************************************************************************)
EXTENDS Integers, Sequences, FiniteSets, TLC

VARIABLES
    pc,                 \* position of the script
    exit_code,          \* -1 while running, else the process exit status
    has_upstream,       \* a remote named "upstream" exists          (l.75-84)
    dirty,              \* git_repo.is_dirty()                       (l.91)
    work_branch_name,   \* l.71
    other_branch_name,  \* the second local branch of the repository
    head,               \* the checked-out branch (or a detached marker)
    tip,                \* local branch name -> commit
    upstream_ref,       \* the remote-tracking ref upstream/main
    upstream_remote,    \* the tip of main on the upstream remote
    local_pr,           \* the local PR branch: NoBranch or [name, base, picks]
    pushed,             \* the PR branch on the user's remote, same shape
    pulls,              \* open pull requests of the upstream repository
    gh_login_from_token,\* l.38
    revisions_to_pr,    \* l.62
    commit_messages,    \* l.116
    cherry_pick_sha1s,  \* l.117
    pr_title,           \* l.140
    full_markdown,      \* l.178 / l.192
    normalized_title,   \* l.202-203
    pr_branch_name,     \* l.204
    existing_pr,        \* l.211: 0 for None, else the index in pulls
    confirmation,       \* l.237
    pick_i,             \* index of the cherry-pick loop, l.247
    calls,              \* the mutating git / API calls made so far, in order
    start               \* the repository and remote state when the run began

vars == << pc, exit_code, has_upstream, dirty, work_branch_name,
           other_branch_name, head, tip, upstream_ref, upstream_remote,
           local_pr, pushed, pulls, gh_login_from_token, revisions_to_pr,
           commit_messages, cherry_pick_sha1s, pr_title, full_markdown,
           normalized_title, pr_branch_name, existing_pr, confirmation,
           pick_i, calls, start >>

----------------------------------------------------------------------------
(* Bounds of the model. *)

\* longest revision specification, in atoms (a sha, a space, a "..")
MaxRevLen == 4
\* longest commit message in the Composer specification, in characters
MaxMsgLen == 2
\* most commits in the Composer specification
MaxCommits == 2
\* longest title in the Normalizer specification
MaxTitleLen == 3
\* most open pull requests in the Reconciler specification
MaxPulls == 3

----------------------------------------------------------------------------
(* Python string primitives. *)

NL == "\n"
SP == " "

Lower == {"a","b","c","d","e","f","g","h","i","j","k","l","m",
          "n","o","p","q","r","s","t","u","v","w","x","y","z"}
Upper == {"A","B","C","D","E","F","G","H","I","J","K","L","M",
          "N","O","P","Q","R","S","T","U","V","W","X","Y","Z"}
Digit == {"0","1","2","3","4","5","6","7","8","9"}

\* str.isalnum() on one character
isalnum(c) == c \in Lower \cup Upper \cup Digit

\* the whitespace str.strip() removes and "if line.strip()" tests
isspace(c) == c \in {SP, NL, "\t"}

\* s.replace(a, b) for one-character a and b
replace(s, a, b) == [i \in 1..Len(s) |-> IF s[i] = a THEN b ELSE s[i]]

RECURSIVE lstrip(_)
lstrip(s) == IF s # <<>> /\ isspace(s[1]) THEN lstrip(Tail(s)) ELSE s

RECURSIVE rstrip(_)
rstrip(s) ==
    IF s # <<>> /\ isspace(s[Len(s)]) THEN rstrip(SubSeq(s, 1, Len(s) - 1))
    ELSE s

\* s.strip()
strip(s) == rstrip(lstrip(s))

\* the least index of sep in s, 0 when there is none
IndexOf(s, sep) ==
    IF \E i \in 1..Len(s) : s[i] = sep
    THEN CHOOSE i \in 1..Len(s) : s[i] = sep /\ \A j \in 1..(i-1) : s[j] # sep
    ELSE 0

\* s.split(sep) for a one-character sep: always at least one piece
RECURSIVE split(_, _)
split(s, sep) ==
    LET i == IndexOf(s, sep) IN
    IF i = 0 THEN << s >>
    ELSE << SubSeq(s, 1, i - 1) >> \o split(SubSeq(s, i + 1, Len(s)), sep)

\* s.splitlines(): no line for the empty string, none after a final newline
splitlines(s) ==
    IF s = <<>> THEN <<>>
    ELSE LET p == split(s, NL) IN
         IF p[Len(p)] = <<>> THEN SubSeq(p, 1, Len(p) - 1) ELSE p

\* sep.join(parts)
RECURSIVE join(_, _)
join(parts, sep) ==
    IF parts = <<>> THEN <<>>
    ELSE IF Len(parts) = 1 THEN parts[1]
    ELSE parts[1] \o sep \o join(Tail(parts), sep)

\* text.find(sub) >= 0
contains(text, sub) ==
    \E i \in 0..(Len(text) - Len(sub)) :
        \A j \in 1..Len(sub) : text[i + j] = sub[j]

\* the concatenation of a sequence of sequences (list.extend in a loop)
RECURSIVE Flatten(_)
Flatten(ss) == IF ss = <<>> THEN <<>> ELSE ss[1] \o Flatten(Tail(ss))

\* all sequences over S of length at most n
SeqsUpTo(S, n) == UNION {[1..k -> S] : k \in 0..n}

----------------------------------------------------------------------------
(* The repository the script runs in: a fixed commit graph.  A sha is one  *)
(* atom of a revision specification.  c0 is the commit upstream/main       *)
(* points at when the run starts; c1, c2 are the work branch; c3 is a      *)
(* commit of the other local branch; c4 is a commit the upstream remote    *)
(* may have gained; c5, c6 are the copies of c1, c2 a rebase onto c4       *)
(* writes.                                                                 *)

NoCommit == "none"

Parent(c) ==
    CASE c = "c1" -> "c0"
      [] c = "c2" -> "c1"
      [] c = "c3" -> "c1"
      [] c = "c4" -> "c0"
      [] c = "c5" -> "c4"
      [] c = "c6" -> "c5"
      [] OTHER    -> NoCommit

\* commit date: git rev-list lists newest first
CommitDate(c) ==
    CASE c = "c0" -> 0 [] c = "c1" -> 1 [] c = "c2" -> 2 [] c = "c3" -> 3
      [] c = "c4" -> 4 [] c = "c5" -> 5 [] c = "c6" -> 6

RECURSIVE Ancestors(_)
Ancestors(c) == IF c = NoCommit THEN {} ELSE {c} \cup Ancestors(Parent(c))

\* commit.message
Message(c) ==
    CASE c \in {"c1", "c5"} -> << "a", SP, "b", "!", NL, NL, "x" >>
      [] c \in {"c2", "c6"} -> << "c", NL >>
      [] c = "c3"           -> << "a", SP, "b", "!" >>
      [] c = "c4"           -> << "u" >>
      [] OTHER              -> << "r" >>

\* the copy of a work-branch commit that a rebase onto c4 writes
Rebased(c) == CASE c = "c1" -> "c5" [] c = "c2" -> "c6" [] OTHER -> c

\* the commits a user can name when the run starts
Nameable == {"c0", "c1", "c2", "c3"}
DOTS == ".."
RevAtoms == Nameable \cup {SP, DOTS}

\* the elements of S as a sequence, newest commit first
RECURSIVE NewestFirst(_)
NewestFirst(S) ==
    IF S = {} THEN <<>>
    ELSE LET c == CHOOSE x \in S : \A y \in S : CommitDate(y) <= CommitDate(x)
         IN << c >> \o NewestFirst(S \ {c})

Reverse(s) == [i \in 1..Len(s) |-> s[Len(s) + 1 - i]]

Failed == << "error" >>

----------------------------------------------------------------------------
(* Commit Selector, l.122-131.  Both results are Failed when git raises.   *)

\* git_repo.commit(revision): one sha resolves, anything else does not
Resolves(revision) == Len(revision) = 1 /\ revision[1] \in Nameable

\* (mutant) a reference given twice is selected once
RECURSIVE Dedup(_)
Dedup(xs) ==
    IF xs = <<>> THEN <<>>
    ELSE LET rest == Dedup(SubSeq(xs, 1, Len(xs) - 1))
             x == xs[Len(xs)]
         IN IF \E i \in 1..Len(rest) : rest[i] = x THEN rest ELSE Append(rest, x)

SelectListDeduplicated(revisions) ==
    LET revisions_to_pr_list == split(revisions, SP) IN
    IF \A i \in 1..Len(revisions_to_pr_list) : Resolves(revisions_to_pr_list[i])
    THEN Dedup([i \in 1..Len(revisions_to_pr_list) |-> revisions_to_pr_list[i][1]])
    ELSE Failed

\* l.123-127: split by space, resolve each piece, keep the order
SelectList(revisions) ==
    LET revisions_to_pr_list == split(revisions, SP) IN
    IF \A i \in 1..Len(revisions_to_pr_list) : Resolves(revisions_to_pr_list[i])
    THEN [i \in 1..Len(revisions_to_pr_list) |-> revisions_to_pr_list[i][1]]
    ELSE Failed

\* l.129: git_repo.iter_commits(rev) is git rev-list rev: the commits
\* reachable from the right side and not from the left, newest first; a
\* missing side is HEAD; anything that is not one range is a bad revision
IterCommits(revisions, head_commit) ==
    LET i == IndexOf(revisions, DOTS)
        left == SubSeq(revisions, 1, i - 1)
        right == SubSeq(revisions, i + 1, Len(revisions))
        Side(x) == IF x = <<>> THEN head_commit ELSE x[1]
        Ok(x) == x = <<>> \/ Resolves(x)
    IN IF i > 0 /\ Ok(left) /\ Ok(right)
       THEN NewestFirst(Ancestors(Side(right)) \ Ancestors(Side(left)))
       ELSE Failed

\* l.122: the mode is decided on the whole joined string
IsRange(revisions) == \E i \in 1..Len(revisions) : revisions[i] = DOTS

Selector(revisions, head_commit) ==
    IF ~IsRange(revisions) THEN SelectList(revisions)
    ELSE IterCommits(revisions, head_commit)

----------------------------------------------------------------------------
(* Branch Validator, l.133-137. *)

\* git branch --contains sha: one line per local branch holding the sha,
\* in name order, the checked-out one marked with a star
BranchLine(name, current) ==
    (IF name = current THEN << "*", SP >> ELSE << SP, SP >>) \o name

\* the lines of the branches of prs (PR branches, "pr/...") holding sha
RECURSIVE PrLines(_, _, _)
PrLines(prs, sha, current) ==
    IF prs = {} THEN <<>>
    ELSE LET b == CHOOSE x \in prs : TRUE IN
         (IF sha \in Ancestors(b.base) THEN << BranchLine(b.name, current) >> ELSE <<>>)
         \o PrLines(prs \ {b}, sha, current)

BranchContains(sha, names, tips, prs, current) ==
    LET Line(n) == IF sha \in Ancestors(tips[n])
                   THEN << BranchLine(n, current) >> ELSE <<>>
    IN join(Line(names[1]) \o Line(names[2]) \o PrLines(prs, sha, current), << NL >>)

\* l.135: the test is a substring search of the whole listing
InWorkBranch(sha, work, names, tips, prs, current) ==
    contains(BranchContains(sha, names, tips, prs, current), work)

----------------------------------------------------------------------------
(* Title/Body Composer, l.167-192. *)

NonBlank(line) == strip(line) # <<>>

\* (mutant) a commit whose body is empty gets no list item
MarkdownItemSkippingEmptyBody(commit_message) ==
    LET title == strip(splitlines(commit_message)[1])
        kept == SelectSeq(Tail(splitlines(commit_message)), NonBlank)
        other_lines == [i \in 1..Len(kept) |-> << SP, SP >> \o kept[i]]
    IN IF kept = <<>> THEN <<>> ELSE << << "-", SP >> \o title >> \o other_lines

\* l.184-190: the list item of one commit and its indented other lines
MarkdownItem(commit_message) ==
    LET title == strip(splitlines(commit_message)[1])
        kept == SelectSeq(Tail(splitlines(commit_message)), NonBlank)
        other_lines == [i \in 1..Len(kept) |-> << SP, SP >> \o kept[i]]
    IN << << "-", SP >> \o title >> \o other_lines

\* l.172-178
ComposeSingle(messages) ==
    join(SelectSeq(Tail(splitlines(messages[1])), NonBlank), << NL >>)

\* l.183-192
ComposeMulti(messages, title) ==
    LET markdown_commit_messages ==
            Flatten([i \in 1..Len(messages) |-> MarkdownItem(messages[i])])
    IN << "#", "#", "#", "#", SP >> \o title \o << NL, NL >>
       \o join(markdown_commit_messages, << NL >>)

Composer(messages, title) ==
    IF Len(messages) = 1 THEN ComposeSingle(messages)
    ELSE ComposeMulti(messages, title)

----------------------------------------------------------------------------
(* Branch Name Normalizer, l.202-204. *)

KeptInBranchName(c) == isalnum(c) \/ c = "-"

\* (mutant) the characters are filtered before the spaces are replaced
NormalizeTitleFilterFirst(title) ==
    replace(SelectSeq(title, KeptInBranchName), SP, "-")

\* l.202-203
NormalizeTitle(title) == SelectSeq(replace(title, SP, "-"), KeptInBranchName)

\* l.204
Normalizer(title) == << "p", "r", "/" >> \o NormalizeTitle(title)

----------------------------------------------------------------------------
(* PR Reconciler, l.211-220: the index of the first open pull request of   *)
(* the login on the branch, 0 for None.                                    *)

\* l.212-220, from the i-th pull request on
RECURSIVE ReconcileFrom(_, _, _, _)
ReconcileFrom(open_pulls, i, login, branch) ==
    IF i > Len(open_pulls) THEN 0
    ELSE IF open_pulls[i].user # login
         THEN ReconcileFrom(open_pulls, i + 1, login, branch)
    ELSE IF open_pulls[i].ref = branch THEN i
    ELSE ReconcileFrom(open_pulls, i + 1, login, branch)

\* (mutant) the owner test of l.215 is dropped
ReconcilerAnyAuthor(open_pulls, login, branch) ==
    IF \E i \in 1..Len(open_pulls) : open_pulls[i].ref = branch
    THEN CHOOSE i \in 1..Len(open_pulls) :
            /\ open_pulls[i].ref = branch
            /\ \A j \in 1..(i - 1) : open_pulls[j].ref # branch
    ELSE 0

Reconciler(open_pulls, login, branch) == ReconcileFrom(open_pulls, 1, login, branch)

----------------------------------------------------------------------------
(* The state of the run. *)

DEV == << "d", "e", "v" >>
DEV2 == << "d", "e", "v", "2" >>
\* the local branches, in the order git lists them
LocalBranches == << DEV, DEV2 >>

Detached == << "(no branch)" >>

ME == "me"
SOMEONE == "someone"

\* the branch name a run on c1's title derives
PrAB == << "p", "r", "/", "a", "-", "b" >>
PrZ == << "p", "r", "/", "z" >>

PullOf(ref, user) ==
    [ref |-> ref, user |-> user, title |-> << "o" >>, body |-> <<>>,
     draft |-> FALSE, maintainer_can_modify |-> TRUE]

\* what an earlier run of the tool on c1 left behind
StaleBranch == [name |-> PrAB, base |-> "c0", picks |-> << "c1" >>]
StalePulls == << PullOf(PrAB, SOMEONE), PullOf(PrAB, ME) >>

\* checkout -B / push -f: the branch of that name is replaced
Put(branches, b) == {x \in branches : x.name # b.name} \cup {b}
BranchNamed(branches, name) == CHOOSE x \in branches : x.name = name

\* input() at the title prompt, l.150, and int(choice), l.157
ChoiceInputs == {"q", "n", "x", "0", "1", "2", "3"}
IsInt(choice) == choice \in {"0", "1", "2", "3"}
int(choice) ==
    CASE choice = "0" -> 0 [] choice = "1" -> 1 [] choice = "2" -> 2
      [] choice = "3" -> 3
\* input() at l.155
TypedTitles == { << "z" >>, << "!" >> }
\* input() at l.237
ConfirmInputs == {"y", "n", "", "Y", "yes"}

env == << has_upstream, dirty, work_branch_name, other_branch_name,
          upstream_remote, gh_login_from_token, revisions_to_pr, start >>
repo == << head, tip, upstream_ref, local_pr >>
remote == << pushed, pulls >>
plan == << commit_messages, cherry_pick_sha1s, pr_title, full_markdown,
           normalized_title, pr_branch_name, existing_pr, confirmation, pick_i >>

Call(op, arg, ok) == [op |-> op, arg |-> arg, ok |-> ok]

\* sys.exit(code)
Exit(code) == pc' = "exited" /\ exit_code' = code
\* an uncaught exception ends the interpreter with status 1
Crash == pc' = "crashed" /\ exit_code' = 1
Goto(label) == pc' = label /\ exit_code' = exit_code

Snapshot == [tip |-> tip, head |-> head, upstream_ref |-> upstream_ref,
             local_pr |-> local_pr, pushed |-> pushed, pulls |-> pulls]

\* l.62: the arguments, joined by spaces
JoinArgs(argv) == join(argv, << SP >>)

PlanInit ==
    /\ commit_messages = <<>>
    /\ cherry_pick_sha1s = <<>>
    /\ pr_title = <<>>
    /\ full_markdown = <<>>
    /\ normalized_title = <<>>
    /\ pr_branch_name = <<>>
    /\ existing_pr = 0
    /\ confirmation = "none"
    /\ pick_i = 0

RepoInit(work, published, remote_tip) ==
    /\ work_branch_name = work
    /\ other_branch_name = IF work = DEV THEN DEV2 ELSE DEV
    /\ head = work_branch_name
    /\ tip = (work_branch_name :> "c2") @@ (other_branch_name :> "c3")
    /\ upstream_ref = "c0"
    /\ upstream_remote = remote_tip
    /\ local_pr = IF published THEN {StaleBranch} ELSE {}
    /\ pushed = IF published THEN {StaleBranch} ELSE {}
    /\ pulls = IF published THEN StalePulls ELSE <<>>
    /\ gh_login_from_token = ME
    /\ calls = <<>>
    /\ exit_code = -1
    /\ start = Snapshot

\* the state at l.73: the token is read, the repository opened
Init ==
    /\ pc = "find_remote"
    /\ has_upstream \in BOOLEAN
    /\ dirty \in BOOLEAN
    /\ \E work \in {DEV, DEV2}, published \in BOOLEAN, remote_tip \in {"c0", "c4"} :
          RepoInit(work, published, remote_tip)
    /\ \E s \in SeqsUpTo(RevAtoms, MaxRevLen) :
          \E argv \in { << s >>, split(s, SP) } : revisions_to_pr = JoinArgs(argv)
    /\ PlanInit

----------------------------------------------------------------------------
(* The steps of the script, in order. *)

\* l.74-88
FindRemote ==
    /\ pc = "find_remote"
    /\ IF has_upstream THEN Goto("preflight") ELSE Exit(1)
    /\ UNCHANGED << env, repo, remote, plan, calls >>

\* (mutant) the dirty check is dropped
PreflightAlwaysPasses(is_dirty) == TRUE

PreflightPasses(is_dirty) == ~is_dirty

\* l.90-95
Preflight ==
    /\ pc = "preflight"
    /\ IF PreflightPasses(dirty) THEN Goto("checkout_initial") ELSE Exit(1)
    /\ UNCHANGED << env, repo, remote, plan, calls >>

\* l.97-99
CheckoutInitial ==
    /\ pc = "checkout_initial"
    /\ head' = work_branch_name
    /\ calls' = Append(calls, Call("checkout", work_branch_name, TRUE))
    /\ Goto("fetch")
    /\ UNCHANGED << env, tip, upstream_ref, local_pr, remote, plan >>

\* l.101-104: should_fetch is True
Fetch ==
    /\ pc = "fetch"
    /\ \E ok \in BOOLEAN :
          /\ calls' = Append(calls, Call("fetch", << >>, ok))
          /\ IF ok THEN upstream_ref' = upstream_remote /\ Goto("rebase")
             ELSE upstream_ref' = upstream_ref /\ Crash
    /\ UNCHANGED << env, head, tip, local_pr, remote, plan >>

UpToDate == upstream_ref \in Ancestors(tip[work_branch_name])

\* l.106-109: should_rebase is True.  A rebase with nothing to replay
\* succeeds; one that replays commits may stop on a conflict, which leaves
\* the repository in the middle of the rebase
Rebase ==
    /\ pc = "rebase"
    /\ \E ok \in {TRUE} \cup {UpToDate} :
          /\ calls' = Append(calls, Call("rebase", work_branch_name, ok))
          /\ IF ok
             THEN /\ tip' = [tip EXCEPT ![work_branch_name] =
                                IF UpToDate THEN @ ELSE Rebased(@)]
                  /\ head' = work_branch_name
                  /\ Goto("checkout_again")
             ELSE /\ tip' = tip
                  /\ head' = Detached
                  /\ Crash
    /\ UNCHANGED << env, upstream_ref, local_pr, remote, plan >>

\* l.111-113
CheckoutAgain ==
    /\ pc = "checkout_again"
    /\ head' = work_branch_name
    /\ calls' = Append(calls, Call("checkout", work_branch_name, TRUE))
    /\ Goto("select")
    /\ UNCHANGED << env, tip, upstream_ref, local_pr, remote, plan >>

\* l.115-131
Select ==
    /\ pc = "select"
    /\ LET selected == Selector(revisions_to_pr, tip[work_branch_name]) IN
       IF selected = Failed
       THEN Crash /\ UNCHANGED << commit_messages, cherry_pick_sha1s >>
       ELSE /\ cherry_pick_sha1s' = selected
            /\ commit_messages' = [i \in 1..Len(selected) |-> Message(selected[i])]
            /\ Goto("validate")
    /\ UNCHANGED << env, repo, remote, calls, pr_title, full_markdown,
                    normalized_title, pr_branch_name, existing_pr,
                    confirmation, pick_i >>

\* l.133-137
Validate ==
    /\ pc = "validate"
    /\ IF \A i \in 1..Len(cherry_pick_sha1s) :
             InWorkBranch(cherry_pick_sha1s[i], work_branch_name,
                          LocalBranches, tip, local_pr, head)
       THEN Goto("title") ELSE Exit(1)
    /\ UNCHANGED << env, repo, remote, plan, calls >>

FirstLine(commit_message) == strip(splitlines(commit_message)[1])
HasLine(commit_message) == splitlines(commit_message) # <<>>

\* l.139-165: [0] of an empty list and int() of a non-number raise
ChooseTitle ==
    /\ pc = "title"
    /\ IF Len(commit_messages) > 1
       THEN IF \E i \in 1..Len(commit_messages) : ~HasLine(commit_messages[i])
            THEN Crash /\ pr_title' = pr_title
            ELSE \E choice \in ChoiceInputs :
                   CASE choice = "q" -> Exit(0) /\ pr_title' = pr_title
                     [] choice = "n" ->
                          \E typed \in TypedTitles : pr_title' = typed /\ Goto("compose")
                     [] ~IsInt(choice) /\ choice \notin {"q", "n"} ->
                          Crash /\ pr_title' = pr_title
                     [] OTHER ->
                          IF int(choice) < 1 \/ int(choice) > Len(commit_messages)
                          THEN Exit(1) /\ pr_title' = pr_title
                          ELSE /\ pr_title' = FirstLine(commit_messages[int(choice)])
                               /\ Goto("compose")
       ELSE IF commit_messages = <<>> \/ ~HasLine(commit_messages[1])
            THEN Crash /\ pr_title' = pr_title
            ELSE pr_title' = FirstLine(commit_messages[1]) /\ Goto("compose")
    /\ UNCHANGED << env, repo, remote, calls, commit_messages, cherry_pick_sha1s,
                    full_markdown, normalized_title, pr_branch_name, existing_pr,
                    confirmation, pick_i >>

\* l.167-192
Compose ==
    /\ pc = "compose"
    /\ full_markdown' = Composer(commit_messages, pr_title)
    /\ Goto("normalize")
    /\ UNCHANGED << env, repo, remote, calls, commit_messages, cherry_pick_sha1s,
                    pr_title, normalized_title, pr_branch_name, existing_pr,
                    confirmation, pick_i >>

\* l.200-207
Normalize ==
    /\ pc = "normalize"
    /\ normalized_title' = NormalizeTitle(pr_title)
    /\ pr_branch_name' = Normalizer(pr_title)
    /\ Goto("reconcile")
    /\ UNCHANGED << env, repo, remote, calls, commit_messages, cherry_pick_sha1s,
                    pr_title, full_markdown, existing_pr, confirmation, pick_i >>

\* l.209-220: listing the pull requests is a network call
Reconcile ==
    /\ pc = "reconcile"
    /\ \E ok \in BOOLEAN :
          IF ok THEN /\ existing_pr' = Reconciler(pulls, gh_login_from_token, pr_branch_name)
                     /\ Goto("confirm")
          ELSE existing_pr' = existing_pr /\ Crash
    /\ UNCHANGED << env, repo, remote, calls, commit_messages, cherry_pick_sha1s,
                    pr_title, full_markdown, normalized_title, pr_branch_name,
                    confirmation, pick_i >>

\* (mutant) only an explicit "n" declines
ConfirmedUnlessNo(answer) == answer # "n"

Confirmed(answer) == answer = "y"

\* l.236-240
Confirm ==
    /\ pc = "confirm"
    /\ \E answer \in ConfirmInputs :
          /\ confirmation' = answer
          /\ IF Confirmed(answer) THEN Goto("create_branch") ELSE Exit(1)
    /\ UNCHANGED << env, repo, remote, calls, commit_messages, cherry_pick_sha1s,
                    pr_title, full_markdown, normalized_title, pr_branch_name,
                    existing_pr, pick_i >>

\* git refuses a branch name that ends with a slash
ValidBranchName(name) == name # <<>> /\ name[Len(name)] # "/"

\* l.242-244: checkout -B
CreateBranch ==
    /\ pc = "create_branch"
    /\ calls' = Append(calls, Call("checkout -B", pr_branch_name,
                                   ValidBranchName(pr_branch_name)))
    /\ IF ValidBranchName(pr_branch_name)
       THEN /\ local_pr' = Put(local_pr, [name |-> pr_branch_name,
                                          base |-> upstream_ref, picks |-> <<>>])
            /\ head' = pr_branch_name
            /\ pick_i' = 1
            /\ Goto("cherry_pick")
       ELSE Crash /\ UNCHANGED << local_pr, head, pick_i >>
    /\ UNCHANGED << env, tip, upstream_ref, remote, commit_messages,
                    cherry_pick_sha1s, pr_title, full_markdown, normalized_title,
                    pr_branch_name, existing_pr, confirmation >>

\* a cherry-pick whose change the branch already has is empty, and fails
PickIsEmpty(sha, branch) ==
    \/ sha \in Ancestors(branch.base)
    \/ \E i \in 1..Len(branch.picks) : branch.picks[i] = sha

\* l.246-249: one turn of the loop; a conflict leaves the PR branch
\* checked out in the middle of the cherry-pick
CherryPick ==
    /\ pc = "cherry_pick"
    /\ pick_i <= Len(cherry_pick_sha1s)
    /\ LET sha == cherry_pick_sha1s[pick_i]
           branch == BranchNamed(local_pr, pr_branch_name)
       IN \E ok \in {FALSE} \cup {~PickIsEmpty(sha, branch)} :
            /\ calls' = Append(calls, Call("cherry-pick", sha, ok))
            /\ IF ok
               THEN /\ local_pr' = Put(local_pr,
                                       [branch EXCEPT !.picks = Append(@, sha)])
                    /\ pick_i' = pick_i + 1
                    /\ Goto("cherry_pick")
               ELSE Crash /\ UNCHANGED << local_pr, pick_i >>
    /\ UNCHANGED << env, head, tip, upstream_ref, remote, commit_messages,
                    cherry_pick_sha1s, pr_title, full_markdown, normalized_title,
                    pr_branch_name, existing_pr, confirmation >>

\* l.251-253: push -f, after the loop has ended
Push ==
    /\ pc = "cherry_pick"
    /\ pick_i > Len(cherry_pick_sha1s)
    /\ \E ok \in BOOLEAN :
          /\ calls' = Append(calls, Call("push -f", pr_branch_name, ok))
          /\ IF ok
             THEN /\ pushed' = Put(pushed, BranchNamed(local_pr, pr_branch_name))
                  /\ Goto("pull_request")
             ELSE pushed' = pushed /\ Crash
    /\ UNCHANGED << env, repo, pulls, plan >>

\* (mutant) the test of l.255 is inverted
ShouldUpdateInverted(existing) == existing = 0

ShouldUpdate(existing) == existing # 0

\* l.264-271
NewPull ==
    [ref |-> pr_branch_name, user |-> gh_login_from_token, title |-> pr_title,
     body |-> full_markdown, draft |-> TRUE, maintainer_can_modify |-> FALSE]

\* l.255-273
UpdateOrCreate ==
    /\ pc = "pull_request"
    /\ \E ok \in BOOLEAN :
          IF ShouldUpdate(existing_pr)
          THEN /\ calls' = Append(calls, Call("edit", pr_branch_name, ok))
               /\ IF ok
                  THEN /\ pulls' = [pulls EXCEPT ![existing_pr] =
                                      [@ EXCEPT !.title = pr_title,
                                                !.body = full_markdown]]
                       /\ Goto("cleanup")
                  ELSE pulls' = pulls /\ Crash
          ELSE /\ calls' = Append(calls, Call("create_pull", pr_branch_name, ok))
               /\ IF ok
                  THEN pulls' = Append(pulls, NewPull) /\ Goto("cleanup")
                  ELSE pulls' = pulls /\ Crash
    /\ UNCHANGED << env, repo, pushed, plan >>

\* l.275-279
Cleanup ==
    /\ pc = "cleanup"
    /\ head' = work_branch_name
    /\ calls' = Append(calls, Call("checkout", work_branch_name, TRUE))
    /\ pc' = "done"
    /\ exit_code' = 0
    /\ UNCHANGED << env, tip, upstream_ref, local_pr, remote, plan >>

Next ==
    \/ FindRemote
    \/ Preflight
    \/ CheckoutInitial
    \/ Fetch
    \/ Rebase
    \/ CheckoutAgain
    \/ Select
    \/ Validate
    \/ ChooseTitle
    \/ Compose
    \/ Normalize
    \/ Reconcile
    \/ Confirm
    \/ CreateBranch
    \/ CherryPick
    \/ Push
    \/ UpdateOrCreate
    \/ Cleanup

Spec == Init /\ [][Next]_vars

----------------------------------------------------------------------------
(* Specifications of the pure components: the script's own step, started   *)
(* from every input within the bounds.                                     *)

\* the values the other variables have by the time the step runs
Settled ==
    /\ has_upstream = TRUE
    /\ dirty = FALSE
    /\ RepoInit(DEV, FALSE, "c0")
    /\ revisions_to_pr = << "c1" >>
    /\ existing_pr = 0
    /\ confirmation = "none"
    /\ pick_i = 0

MessageChars == {"a", SP, NL}
ComposerMessages == SeqsUpTo(MessageChars, MaxMsgLen)

\* the Composer: the state at l.139, for every list of commit messages
InitComposer ==
    /\ pc = "title"
    /\ Settled
    /\ commit_messages \in SeqsUpTo(ComposerMessages, MaxCommits)
    /\ cherry_pick_sha1s = [i \in 1..Len(commit_messages) |-> "c1"]
    /\ pr_title = <<>>
    /\ full_markdown = <<>>
    /\ normalized_title = <<>>
    /\ pr_branch_name = <<>>

NextComposer == ChooseTitle \/ Compose

SpecComposer == InitComposer /\ [][NextComposer]_vars

FixTheBug == << "F","i","x",SP,"t","h","e",SP,"b","u","g","!","!" >>
PrFixTheBug == << "p","r","/","F","i","x","-","t","h","e","-","b","u","g" >>
TitleChars == {"a", SP, "-", "!", "/"}

\* the Normalizer: the state at l.200, for every title
InitNormalizer ==
    /\ pc = "normalize"
    /\ Settled
    /\ pr_title \in SeqsUpTo(TitleChars, MaxTitleLen) \cup {FixTheBug}
    /\ commit_messages = << pr_title >>
    /\ cherry_pick_sha1s = << "c1" >>
    /\ full_markdown = <<>>
    /\ normalized_title = <<>>
    /\ pr_branch_name = <<>>

NextNormalizer == Normalize

SpecNormalizer == InitNormalizer /\ [][NextNormalizer]_vars

ReconcilerPulls == {PullOf(ref, user) : ref \in {PrAB, PrZ}, user \in {ME, SOMEONE}}

\* the Reconciler: the state at l.209, for every list of open pull
\* requests, both identities and two branch names
InitReconciler ==
    /\ pc = "reconcile"
    /\ has_upstream = TRUE
    /\ dirty = FALSE
    /\ work_branch_name = DEV
    /\ other_branch_name = DEV2
    /\ head = DEV
    /\ tip = (DEV :> "c2") @@ (DEV2 :> "c3")
    /\ upstream_ref = "c0"
    /\ upstream_remote = "c0"
    /\ local_pr = {}
    /\ pushed = {}
    /\ pulls \in SeqsUpTo(ReconcilerPulls, MaxPulls)
    /\ gh_login_from_token \in {ME, SOMEONE}
    /\ calls = <<>>
    /\ exit_code = -1
    /\ start = Snapshot
    /\ revisions_to_pr = << "c1" >>
    /\ pr_title \in { << "a", SP, "b", "!" >>, << "z" >> }
    /\ commit_messages = << pr_title >>
    /\ cherry_pick_sha1s = << "c1" >>
    /\ full_markdown = <<>>
    /\ normalized_title = NormalizeTitle(pr_title)
    /\ pr_branch_name = Normalizer(pr_title)
    /\ existing_pr = 0
    /\ confirmation = "none"
    /\ pick_i = 0

NextReconciler == Reconcile

SpecReconciler == InitReconciler /\ [][NextReconciler]_vars

----------------------------------------------------------------------------
(* The claims. *)

Ended == pc \in {"exited", "crashed", "done"}

PublishOps == {"checkout -B", "cherry-pick", "push -f", "edit", "create_pull"}

\* a call of Publish has been made
Published == \E i \in 1..Len(calls) : calls[i].op \in PublishOps

\* C1: a run on a dirty working copy makes no git or API call and changes
\* nothing of the repository or the remote, and it ends only by sys.exit(1):
\* at PreflightClean when the upstream remote exists (at the remote lookup
\* before it otherwise).
C1_DirtyAbortsUntouched ==
    dirty =>
        /\ pc \in {"find_remote", "preflight", "exited"}
        /\ pc = "exited" => exit_code = 1
        /\ calls = <<>>
        /\ Snapshot = start

\* C1 witness: a dirty run with an upstream remote has ended with status 1.
C1_Witness == dirty /\ has_upstream /\ pc = "exited" /\ exit_code = 1

Declined == confirmation \notin {"none", "y"}

\* C2 as claimed: after a declined confirmation the run has ended and the
\* work branch tip, the checked-out branch, the PR branches, the pushed
\* branch and the pull requests are those of the start of the run.
C2_DeclinedNothingChanged ==
    Declined =>
        /\ pc = "exited"
        /\ tip = start.tip
        /\ head = start.head
        /\ local_pr = start.local_pr
        /\ pushed = start.pushed
        /\ pulls = start.pulls

\* C2 amended: after a declined confirmation the run has ended with status 1
\* and nothing of Publish has run: the checked-out branch, the PR branches,
\* the pushed branch and the pull requests are those of the start.  Sync has
\* run: upstream/main is fetched, and the work branch tip is the start's tip
\* exactly when that tip already held the fetched upstream commit, and its
\* rebased copy otherwise.
C2_DeclinedNothingPublished ==
    Declined =>
        /\ pc = "exited" /\ exit_code = 1
        /\ ~Published
        /\ head = start.head
        /\ local_pr = start.local_pr
        /\ pushed = start.pushed
        /\ pulls = start.pulls
        /\ upstream_ref = upstream_remote
        /\ tip[other_branch_name] = start.tip[other_branch_name]
        /\ tip[work_branch_name] =
              IF upstream_remote \in Ancestors(start.tip[work_branch_name])
              THEN start.tip[work_branch_name]
              ELSE Rebased(start.tip[work_branch_name])

\* C2 witness: a confirmation was declined after the rebase moved the work
\* branch.
C2_Witness ==
    /\ confirmation = "n"
    /\ pc = "exited"
    /\ tip[work_branch_name] # start.tip[work_branch_name]

\* the revision specification is base..tip with both sides given
FullRange ==
    /\ Len(revisions_to_pr) = 3
    /\ revisions_to_pr[2] = DOTS
    /\ revisions_to_pr[1] \in Nameable
    /\ revisions_to_pr[3] \in Nameable

Selected == pc \notin {"find_remote", "preflight", "checkout_initial", "fetch",
                       "rebase", "checkout_again", "select", "exited", "crashed"}

\* C3 as claimed: for base..tip the selected list is the commits reachable
\* from tip and not from base, oldest first.
C3_RangeOldestFirst ==
    (pc = "validate" /\ FullRange) =>
        cherry_pick_sha1s =
            Reverse(NewestFirst(Ancestors(revisions_to_pr[3])
                                \ Ancestors(revisions_to_pr[1])))

InPublish == pc \in {"create_branch", "cherry_pick", "pull_request", "cleanup", "done"}

\* C4 as claimed: in a run that reaches Publish every selected commit is an
\* ancestor of the work branch tip.
C4_PublishedAreAncestors ==
    InPublish =>
        \A i \in 1..Len(cherry_pick_sha1s) :
            cherry_pick_sha1s[i] \in Ancestors(tip[work_branch_name])

Both(pr) == pr.ref = pr_branch_name /\ pr.user = gh_login_from_token

\* C5: the Reconciler returns the first pull request in list order whose
\* head branch is the normalized name and whose head author is the login,
\* and None when no pull request satisfies both.
C5_FirstMatchByBranchAndAuthor ==
    pc = "confirm" =>
        /\ existing_pr = 0 <=> ~\E i \in 1..Len(pulls) : Both(pulls[i])
        /\ existing_pr # 0 =>
              /\ existing_pr \in 1..Len(pulls)
              /\ Both(pulls[existing_pr])
              /\ \A j \in 1..(existing_pr - 1) : ~Both(pulls[j])

\* C5 witness: the branch has a pull request of someone else first and one
\* of the login after it, and a pull request of the login on another branch;
\* the login's pull request on the branch is returned.
C5_Witness ==
    /\ pc = "confirm"
    /\ Len(pulls) = 3
    /\ pulls[1].ref # pr_branch_name /\ pulls[1].user = gh_login_from_token
    /\ pulls[2].ref = pr_branch_name /\ pulls[2].user # gh_login_from_token
    /\ Both(pulls[3])
    /\ existing_pr = 3

\* C6 as claimed: normalizing a normalized name gives the same name, and the
\* name of "Fix the bug!!" is "pr/Fix-the-bug".
C6_NormalizerIdempotent ==
    pc = "reconcile" =>
        /\ Normalizer(pr_branch_name) = pr_branch_name
        /\ pr_title = FixTheBug => pr_branch_name = PrFixTheBug

\* C6 amended: the character transform (spaces to dashes, then only
\* alphanumerics and dashes kept) is idempotent and the name is "pr/" before
\* its result; normalizing the name again deletes the slash and prepends the
\* prefix a second time, giving "pr/pr" before the transform's result; and
\* the name of "Fix the bug!!" is "pr/Fix-the-bug".
C6_TransformIdempotent ==
    pc = "reconcile" =>
        /\ NormalizeTitle(normalized_title) = normalized_title
        /\ \A i \in 1..Len(normalized_title) :
              normalized_title[i] = "-" \/ isalnum(normalized_title[i])
        /\ pr_branch_name = << "p", "r", "/" >> \o normalized_title
        /\ Normalizer(pr_branch_name) = << "p", "r", "/", "p", "r" >> \o normalized_title
        /\ pr_title = FixTheBug => pr_branch_name = PrFixTheBug

\* C6 witness: "Fix the bug!!" has been normalized.
C6_Witness == pc = "reconcile" /\ pr_title = FixTheBug /\ pr_branch_name = PrFixTheBug

\* the lines of commit i after the first that are not blank
KeptLines(i) == SelectSeq(Tail(splitlines(commit_messages[i])), NonBlank)

\* the place of commit i's list item among the lines of the body
RECURSIVE ItemLine(_)
ItemLine(i) == IF i = 1 THEN 3 ELSE ItemLine(i - 1) + 1 + Len(KeptLines(i - 1))

StartsWith(line, prefix) ==
    Len(line) >= Len(prefix) /\ SubSeq(line, 1, Len(prefix)) = prefix

\* C7: for two or more commits the body is a heading line with the title, a
\* blank line, then per commit, in order, one item "- " + the trimmed first
\* line, directly followed by that commit's other lines that are not blank,
\* each indented by two spaces; there are as many items as commits.
C7_BodyHasOneItemPerCommit ==
    (pc = "normalize" /\ Len(commit_messages) >= 2) =>
        LET lines == split(full_markdown, NL)
            n == Len(commit_messages)
        IN /\ Len(lines) = ItemLine(n) + Len(KeptLines(n))
           /\ lines[1] = << "#", "#", "#", "#", SP >> \o pr_title
           /\ lines[2] = <<>>
           /\ \A i \in 1..n :
                 /\ lines[ItemLine(i)] =
                       << "-", SP >> \o strip(splitlines(commit_messages[i])[1])
                 /\ \A k \in 1..Len(KeptLines(i)) :
                       lines[ItemLine(i) + k] = << SP, SP >> \o KeptLines(i)[k]
           /\ Cardinality({p \in 1..Len(lines) : StartsWith(lines[p], << "-", SP >>)}) = n

\* C7 witness: a body was composed for two commits, the first with an
\* empty body and the second with a line under its first.
C7_Witness ==
    /\ pc = "normalize"
    /\ Len(commit_messages) = 2
    /\ KeptLines(1) = <<>>
    /\ KeptLines(2) # <<>>
    /\ Len(split(full_markdown, NL)) = 5

\* the cherry-picks made so far, in order
PickCalls == SelectSeq(calls, LAMBDA c : c.op = "cherry-pick")
PushCalled == \E i \in 1..Len(calls) : calls[i].op = "push -f"

\* C8: in list mode the selected list has one commit per space-delimited
\* reference, in the given order, duplicates kept, and the cherry-picks are
\* made in that order: all of them before the push.
C8_ListInGivenOrder ==
    (Selected /\ ~IsRange(revisions_to_pr)) =>
        /\ JoinArgs([i \in 1..Len(cherry_pick_sha1s) |-> << cherry_pick_sha1s[i] >>])
              = revisions_to_pr
        /\ Len(cherry_pick_sha1s) =
              Cardinality({i \in 1..Len(revisions_to_pr) : revisions_to_pr[i] = SP}) + 1
        /\ Len(PickCalls) <= Len(cherry_pick_sha1s)
        /\ \A i \in 1..Len(PickCalls) : PickCalls[i].arg = cherry_pick_sha1s[i]
        /\ PushCalled => Len(PickCalls) = Len(cherry_pick_sha1s)

\* C8 witness: two references were given, selected in that order and both
\* cherry-picked before the push.
C8_Witness ==
    /\ revisions_to_pr = << "c1", SP, "c2" >>
    /\ cherry_pick_sha1s = << "c1", "c2" >>
    /\ PushCalled
    /\ PickCalls[1].arg = "c1" /\ PickCalls[2].arg = "c2"

FirstPublish ==
    IF Published
    THEN CHOOSE i \in 1..Len(calls) :
            /\ calls[i].op \in PublishOps
            /\ \A j \in 1..(i - 1) : calls[j].op \notin PublishOps
    ELSE Len(calls) + 1

\* the calls of Publish and Cleanup a complete run makes, in order
ExpectedPublish ==
    << [op |-> "checkout -B", arg |-> pr_branch_name] >>
    \o [i \in 1..Len(cherry_pick_sha1s) |->
           [op |-> "cherry-pick", arg |-> cherry_pick_sha1s[i]]]
    \o << [op |-> "push -f", arg |-> pr_branch_name],
          [op |-> IF existing_pr # 0 THEN "edit" ELSE "create_pull",
           arg |-> pr_branch_name],
          [op |-> "checkout", arg |-> work_branch_name] >>

CallOk(op) == \E i \in 1..Len(calls) : calls[i].op = op /\ calls[i].ok

\* C9: the calls from the first call of Publish on are a prefix of: reset
\* the PR branch, cherry-pick each selected commit in order, force-push,
\* then edit (exactly when the Reconciler found a pull request) or create,
\* then the final checkout; each call is made only after the one before it
\* succeeded.  The pull requests change only by that edit, of title and
\* body, or by that create, of a draft that maintainers cannot modify; the
\* pushed branch changes only by the push.
C9_PublishInOrder ==
    LET made == SubSeq(calls, FirstPublish, Len(calls)) IN
    /\ Len(made) <= Len(ExpectedPublish)
    /\ \A i \in 1..Len(made) :
          /\ made[i].op = ExpectedPublish[i].op
          /\ made[i].arg = ExpectedPublish[i].arg
          /\ i < Len(made) => made[i].ok
    /\ pushed # start.pushed => CallOk("push -f")
    /\ pulls = IF CallOk("edit")
               THEN [start.pulls EXCEPT ![existing_pr] =
                        [@ EXCEPT !.title = pr_title, !.body = full_markdown]]
               ELSE IF CallOk("create_pull")
               THEN Append(start.pulls,
                           [ref |-> pr_branch_name, user |-> gh_login_from_token,
                            title |-> pr_title, body |-> full_markdown,
                            draft |-> TRUE, maintainer_can_modify |-> FALSE])
               ELSE start.pulls

\* C9 witness: a run has ended after it updated the pull request it found.
C9_Witness ==
    /\ pc = "done"
    /\ existing_pr # 0
    /\ CallOk("edit")
    /\ Len(cherry_pick_sha1s) >= 1

\* C10 as claimed: when a run that checked out the PR branch has ended, the
\* work branch is checked out.
C10_EndsOnWorkBranch ==
    (Ended /\ CallOk("checkout -B")) => head = work_branch_name

====
